---- MODULE Spec2Model ----
(***************************************************************************)
(* clipboard2markdown: the HTML -> Markdown conversion pipeline            *)
(* (converter.js, formatter.js), the clipboard helpers (clipboard.js) and  *)
(* the event handlers that drive them (main.js, ui.js).                    *)
(*                                                                         *)
(* JavaScript strings are sequences of one-character strings, so that     *)
(* trim(), includes(), the regular expressions and string concatenation    *)
(* are computed character by character.  A DOM node is a record            *)
(*   [tag, class, kids, text]                                              *)
(* with tag "#text" for a text node (text = its nodeValue).                *)
(***************************************************************************)
EXTENDS Integers, Sequences, FiniteSets, TLC

\* ------------------------------------------------------------------------
\* Characters and strings
\* ------------------------------------------------------------------------

Letters ==
    {"a", "b", "c", "d", "e", "f", "g", "h", "i", "j", "k", "l", "m",
     "n", "o", "p", "q", "r", "s", "t", "u", "v", "w", "x", "y", "z"}

Digits == {"0", "1", "2", "3", "4", "5", "6", "7", "8", "9"}

\* \w of a JavaScript regular expression
WordChars == Letters \cup Digits \cup {"_"}

\* \s of a JavaScript regular expression (the ASCII part), also what trim() strips
Whitespace == {" ", "\t", "\n", "\r"}

NL == "\n"

Max(a, b) == IF a >= b THEN a ELSE b

Min(a, b) == IF a <= b THEN a ELSE b

\* /^\s*$/.test(s)
IsBlankStr(s) == \A i \in 1..Len(s) : s[i] \in Whitespace

\* the number of leading characters of s that are in set cs
RECURSIVE LeadingRun(_, _)
LeadingRun(s, cs) ==
    IF s = <<>> \/ Head(s) \notin cs THEN 0 ELSE 1 + LeadingRun(Tail(s), cs)

\* the number of trailing characters of s that are in set cs
RECURSIVE TrailingRun(_, _)
TrailingRun(s, cs) ==
    IF s = <<>> \/ s[Len(s)] \notin cs
    THEN 0
    ELSE 1 + TrailingRun(SubSeq(s, 1, Len(s) - 1), cs)

DropLeading(s, cs) == SubSeq(s, LeadingRun(s, cs) + 1, Len(s))

DropTrailing(s, cs) == SubSeq(s, 1, Len(s) - TrailingRun(s, cs))

\* String.prototype.trim
Trim(s) == DropTrailing(DropLeading(s, Whitespace), Whitespace)

\* String.prototype.includes, for one character
Includes(s, c) == \E i \in 1..Len(s) : s[i] = c

\* s.startsWith(p, i - 1): p occurs in s at (1-based) position i
OccursAt(s, i, p) ==
    /\ i >= 1
    /\ i + Len(p) - 1 <= Len(s)
    /\ SubSeq(s, i, i + Len(p) - 1) = p

\* the concatenation of a sequence of strings
RECURSIVE Concat(_)
Concat(ss) == IF ss = <<>> THEN <<>> ELSE Head(ss) \o Concat(Tail(ss))

\* ------------------------------------------------------------------------
\* JavaScript values handed to the exported functions
\* ------------------------------------------------------------------------

Str(s) == [t |-> "string", v |-> s]

Undefined == [t |-> "undefined", v |-> <<>>]

Null == [t |-> "null", v |-> <<>>]

\* a number; n = 0 is falsy, any other n is truthy
Num(n) == [t |-> "number", v |-> <<n>>]

\* !x
Falsy(x) ==
    \/ x.t \in {"undefined", "null"}
    \/ x.t = "string" /\ x.v = <<>>
    \/ x.t = "number" /\ x.v = <<0>>

\* ------------------------------------------------------------------------
\* converter.js: isValidHtml
\* ------------------------------------------------------------------------

\* /<\/?[a-z][\s\S]*>/i.test(s)
htmlTagPattern(s) ==
    \E i \in 1..Len(s) :
        /\ s[i] = "<"
        /\ \E k \in {i + 1, i + 2} :
              /\ k <= Len(s)
              /\ k = i + 2 => s[i + 1] = "/"
              /\ s[k] \in Letters
              /\ \E j \in (k + 1)..Len(s) : s[j] = ">"

isValidHtml(x) ==
    IF Falsy(x) \/ x.t # "string" THEN FALSE ELSE htmlTagPattern(x.v)

\* ------------------------------------------------------------------------
\* The DOM the HTML parser builds
\* ------------------------------------------------------------------------

TextNode(s) == [tag |-> "#text", class |-> <<>>, kids |-> <<>>, text |-> s]

Elem(tag, class, kids) ==
    [tag |-> tag, class |-> class, kids |-> kids, text |-> <<>>]

IsText(n) == n.tag = "#text"

\* Node.textContent: the text of every text-node descendant, in document order
RECURSIVE textContent(_)
textContent(n) ==
    IF IsText(n)
    THEN n.text
    ELSE Concat([i \in 1..Len(n.kids) |-> textContent(n.kids[i])])

\* the descendants of n (n excluded) in document order
RECURSIVE Descendants(_)
Descendants(n) ==
    Concat([i \in 1..Len(n.kids) |->
               <<n.kids[i]>> \o Descendants(n.kids[i])])

\* <<>> when s is empty, else the sequence of its first element
FirstOrNone(s) == IF s = <<>> THEN <<>> ELSE <<Head(s)>>

\* node.querySelector(tag): the first descendant element with that tag, as a
\* sequence of at most one node (<<>> is null)
querySelector(n, tags) ==
    FirstOrNone(SelectSeq(Descendants(n), LAMBDA d : d.tag \in tags))

\* ------------------------------------------------------------------------
\* converter.js: createTurndownService, the options and the custom rules
\* ------------------------------------------------------------------------

\* the backtick character (a string literal cannot hold one)
BT == "BACKTICK"

\* the options given to new TurndownService(...); br is Turndown's default
Options ==
    [fence |-> <<BT, BT, BT>>,
     hr |-> <<"-", "-", "-">>,
     bulletListMarker |-> <<"-">>,
     emDelimiter |-> <<"_">>,
     strongDelimiter |-> <<"*", "*">>,
     br |-> <<" ", " ">>]

\* turndownService.remove([...])
RemovedTags == {"script", "style", "noscript"}

LanguagePrefixes ==
    {<<"l", "a", "n", "g", "u", "a", "g", "e", "-">>,
     <<"l", "a", "n", "g", "-">>}

\* a prefix of the pattern followed by a word character, at position i
prefixAt(className, i, p) ==
    /\ OccursAt(className, i, p)
    /\ i + Len(p) <= Len(className)
    /\ className[i + Len(p)] \in WordChars

\* the longest run of word characters of className from position j: (\w+)
wordAt(className, j) ==
    SubSeq(className, j,
           j + LeadingRun(SubSeq(className, j, Len(className)), WordChars) - 1)

\* the match that starts at the least of the positions in starts
firstMatch(className, starts) ==
    IF starts = {}
    THEN <<>>
    ELSE <<wordAt(className,
                  CHOOSE j \in 1..Len(className) :
                      \E i \in starts, p \in LanguagePrefixes :
                          /\ \A o \in starts : i <= o
                          /\ prefixAt(className, i, p)
                          /\ j = i + Len(p))>>

\* className.match(/(?:language-|lang-)(\w+)/): <<>> for null, else <<group 1>>.
\* The match is the leftmost position where a prefix is followed by at least
\* one word character; the group is the longest run of word characters there.
languageMatch(className) ==
    firstMatch(className,
               {i \in 1..Len(className) :
                   \E p \in LanguagePrefixes : prefixAt(className, i, p)})

\* found[1] when querySelector found a node, else the node itself
foundOr(found, node) == IF found # <<>> THEN found[1] ELSE node

\* languageMatch ? languageMatch[1] : ""
groupOrEmpty(m) == IF m # <<>> THEN m[1] ELSE <<>>

\* a variant that reads the class of the nested code element only
extractLanguageFromCode_CodeOnly(node) ==
    groupOrEmpty(languageMatch(
        foundOr(querySelector(node, {"code"}), Elem("", <<>>, <<>>)).class))

extractLanguageFromCode(node) ==
    groupOrEmpty(languageMatch(foundOr(querySelector(node, {"code"}), node).class))

\* `\n\`\`\`${language}\n${codeContent.trim()}\n\`\`\`\n`
fencedBlock(language, codeContent) ==
    <<NL, BT, BT, BT>> \o language \o <<NL>> \o Trim(codeContent)
        \o <<NL, BT, BT, BT, NL>>

\* a variant that fences the Markdown emitted for the children
preserveCodeBlocks_UsesContent(content, node) ==
    fencedBlock(extractLanguageFromCode(node), content)

\* the replacement of the rule "preserveCodeBlocks" (filter: pre)
preserveCodeBlocks(content, node) ==
    fencedBlock(extractLanguageFromCode(node),
                textContent(foundOr(querySelector(node, {"code"}), node)))

\* the filter of the rule "inlineCode"
inlineCodeFilter(node, parent) == node.tag = "code" /\ parent.tag # "pre"

\* a variant that tests the content for emptiness without trimming it
inlineCode_NoTrim(content) ==
    IF content = <<>>
    THEN <<>>
    ELSE IF Includes(content, BT)
         THEN <<BT, BT, " ">> \o content \o <<" ", BT, BT>>
         ELSE <<BT>> \o content \o <<BT>>

\* the replacement of the rule "inlineCode"
inlineCode(content) ==
    IF Trim(content) = <<>>
    THEN <<>>
    ELSE IF Includes(content, BT)
         THEN <<BT, BT, " ">> \o content \o <<" ", BT, BT>>
         ELSE <<BT>> \o content \o <<BT>>

\* ------------------------------------------------------------------------
\* Turndown's tree walk, as far as the documents of this model exercise it
\* ------------------------------------------------------------------------

BlockTags ==
    {"address", "article", "aside", "audio", "blockquote", "body", "canvas",
     "center", "dd", "dir", "div", "dl", "dt", "fieldset", "figcaption",
     "figure", "footer", "form", "frameset", "h1", "h2", "h3", "h4", "h5",
     "h6", "header", "hgroup", "hr", "html", "isindex", "li", "main", "menu",
     "nav", "noframes", "noscript", "ol", "output", "p", "pre", "section",
     "table", "tbody", "td", "tfoot", "th", "thead", "tr", "ul"}

VoidTags ==
    {"area", "base", "br", "col", "command", "embed", "hr", "img", "input",
     "keygen", "link", "meta", "param", "source", "track", "wbr"}

MeaningfulWhenBlankTags ==
    {"a", "table", "thead", "tbody", "tfoot", "th", "td", "iframe", "script",
     "audio", "video"}

isBlock(n) == n.tag \in BlockTags

\* Turndown's Node.isBlank
isBlank(n) ==
    /\ ~IsText(n)
    /\ n.tag \notin VoidTags
    /\ n.tag \notin MeaningfulWhenBlankTags
    /\ IsBlankStr(textContent(n))
    /\ querySelector(n, VoidTags) = <<>>
    /\ querySelector(n, MeaningfulWhenBlankTags) = <<>>

\* Rules.forNode: the blank rule, then the added rules (the last added first),
\* then the CommonMark rules, then remove, then the default rule
forNode(n, parent) ==
    IF isBlank(n) THEN "blank"
    ELSE IF inlineCodeFilter(n, parent) THEN "inlineCode"
    ELSE IF n.tag = "pre" THEN "preserveCodeBlocks"
    ELSE IF n.tag = "p" THEN "paragraph"
    ELSE IF n.tag = "br" THEN "lineBreak"
    ELSE IF n.tag = "code" /\ ~(parent.tag = "pre" /\ Len(parent.kids) = 1)
         THEN "code"
    ELSE IF n.tag \in RemovedTags THEN "remove"
    ELSE "default"

\* the lengths of the maximal runs of backticks in s
BacktickRuns(s) ==
    {j - i + 1 : <<i, j>> \in
        {r \in (1..Len(s)) \X (1..Len(s)) :
            /\ r[1] <= r[2]
            /\ \A k \in r[1]..r[2] : s[k] = BT
            /\ (r[1] = 1 \/ s[r[1] - 1] # BT)
            /\ (r[2] = Len(s) \/ s[r[2] + 1] # BT)}}

\* delimiter + extraSpace + content + extraSpace + delimiter
wrapCode(c, extraSpace, n) ==
    [i \in 1..n |-> BT] \o extraSpace \o c \o extraSpace \o [i \in 1..n |-> BT]

\* the content between the shortest backtick delimiter that no backtick run
\* of the content equals, padded when it starts or ends with a backtick or
\* has spaces at both ends
delimitCode(c) ==
    wrapCode(c,
             IF \/ c[1] = BT
                \/ c[Len(c)] = BT
                \/ Len(c) >= 3 /\ c[1] = " " /\ c[Len(c)] = " "
                     /\ \E k \in 1..Len(c) : c[k] # " "
             THEN <<" ">> ELSE <<>>,
             CHOOSE k \in 1..(Len(c) + 1) :
                 /\ k \notin BacktickRuns(c)
                 /\ \A l \in 1..(k - 1) : l \in BacktickRuns(c))

\* the replacement of the CommonMark rule "code" (a code element that the
\* rule "inlineCode" does not take: one inside pre, with siblings)
commonmarkCode(content) ==
    IF content = <<>>
    THEN <<>>
    ELSE delimitCode([i \in 1..Len(content) |->
                         IF content[i] \in {"\n", "\r"} THEN " " ELSE content[i]])

\* rule.replacement(content, node, options)
replacement(rule, content, node) ==
    CASE rule = "blank" -> IF isBlock(node) THEN <<NL, NL>> ELSE <<>>
      [] rule = "inlineCode" -> inlineCode(content)
      [] rule = "preserveCodeBlocks" -> preserveCodeBlocks(content, node)
      [] rule = "paragraph" -> <<NL, NL>> \o content \o <<NL, NL>>
      [] rule = "lineBreak" -> Options.br \o <<NL>>
      [] rule = "code" -> commonmarkCode(content)
      [] rule = "remove" -> <<>>
      [] OTHER -> IF isBlock(node)
                  THEN <<NL, NL>> \o content \o <<NL, NL>>
                  ELSE content

\* TurndownService.escape, for the characters whose escape does not depend on
\* their place in the line
EscapedChars == {"\\", "*", "_", BT, "[", "]"}

escape(s) ==
    Concat([i \in 1..Len(s) |->
               IF s[i] \in EscapedChars THEN <<"\\", s[i]>> ELSE <<s[i]>>])

\* Turndown's join: the two parts separated by as many newlines (at most two)
\* as the longer of the newline runs that meet
join(output, rep) ==
    LET s1 == DropTrailing(output, {NL})
        s2 == DropLeading(rep, {NL})
        nls == Max(TrailingRun(output, {NL}), LeadingRun(rep, {NL}))
    IN  s1 \o SubSeq(<<NL, NL>>, 1, Min(nls, 2)) \o s2

\* / $/.test(t) for the left side, /^ /.test(t) for the right side
spaceAtEdge(left, t) ==
    t # <<>> /\ (IF left THEN t[Len(t)] ELSE t[1]) = " "

\* the j-th child of parent is a text node or an inline element whose text
\* has a space at the near end
siblingFlanks(left, parent, j) ==
    /\ j \in 1..Len(parent.kids)
    /\ IsText(parent.kids[j]) \/ ~isBlock(parent.kids[j])
    /\ spaceAtEdge(left, textContent(parent.kids[j]))

\* isFlankedByWhitespace(side, node), for the k-th child of parent
isFlankedByWhitespace(left, parent, k) ==
    siblingFlanks(left, parent, IF left THEN k - 1 ELSE k + 1)

\* the leading and trailing whitespace of text t (lead and trail characters),
\* each dropped when the sibling on that side flanks it with a space
edgeWhitespace(parent, k, t, lead, trail) ==
    [leading |->
        IF lead > 0 /\ isFlankedByWhitespace(TRUE, parent, k)
        THEN <<>> ELSE SubSeq(t, 1, lead),
     trailing |->
        IF trail > 0 /\ isFlankedByWhitespace(FALSE, parent, k)
        THEN <<>> ELSE SubSeq(t, Len(t) - trail + 1, Len(t))]

\* the trailing whitespace is counted only when the text is not all whitespace
edgesOf(parent, k, t, lead) ==
    edgeWhitespace(parent, k, t, lead,
                   IF lead = Len(t) THEN 0 ELSE TrailingRun(t, Whitespace))

\* Turndown's flankingWhitespace of the k-th child of parent
flankingWhitespace(parent, k) ==
    IF isBlock(parent.kids[k])
    THEN [leading |-> <<>>, trailing |-> <<>>]
    ELSE edgesOf(parent, k, textContent(parent.kids[k]),
                 LeadingRun(textContent(parent.kids[k]), Whitespace))

\* the walk so far joined with the replacement of the next child
joinWalk(before, r) ==
    [out |-> join(before.out, r.out), visits |-> before.visits \cup r.visits]

\* the replacement rep of node, between its flanking whitespace, and the rule
\* application it adds to those of its subtree
emitted(node, rule, content, rep, ws, innerVisits) ==
    [out |-> ws.leading \o rep \o ws.trailing,
     visits |-> innerVisits \cup
         {[rule |-> rule, node |-> node, content |-> content, out |-> rep]}]

\* rule.replacement(content, node), with content the Markdown of the children
applyRule(node, rule, content, ws, innerVisits) ==
    emitted(node, rule, content, replacement(rule, content, node), ws,
            innerVisits)

\* if (whitespace.leading || whitespace.trailing) content = content.trim()
contentOf(node, rule, inner, ws) ==
    applyRule(node, rule,
              IF ws.leading # <<>> \/ ws.trailing # <<>>
              THEN Trim(inner.out) ELSE inner.out,
              ws, inner.visits)

\* process(parentNode) over the first k children, and replacementForNode.
\* Each returns [out, visits]: the text emitted and the rule applications
\* made on the way, each [rule, node, content, out].
RECURSIVE process(_, _, _)
RECURSIVE replacementForNode(_, _, _)
process(parent, inCode, k) ==
    IF k = 0
    THEN [out |-> <<>>, visits |-> {}]
    ELSE joinWalk(process(parent, inCode, k - 1),
                  IF IsText(parent.kids[k])
                  THEN [out |-> IF inCode THEN parent.kids[k].text
                                ELSE escape(parent.kids[k].text),
                        visits |-> {}]
                  ELSE replacementForNode(parent, inCode, k))

replacementForNode(parent, inCode, k) ==
    contentOf(parent.kids[k],
              forNode(parent.kids[k], parent),
              process(parent.kids[k], inCode \/ parent.kids[k].tag = "code",
                      Len(parent.kids[k].kids)),
              flankingWhitespace(parent, k))

\* Turndown's postProcess: output.replace(/^[\t\r\n]+/, '')
\*                               .replace(/[\t\r\n\s]+$/, '')
postProcess(output) ==
    DropTrailing(DropLeading(output, {"\t", "\r", NL}), Whitespace)

\* the result of the walk: '' for the empty input, else the output postProcessed
walked(doc, walk) ==
    [out |-> IF doc = <<>> THEN <<>> ELSE postProcess(walk.out),
     visits |-> walk.visits]

\* turndownService.turndown(html) on the parsed document (the children of
\* Turndown's root element)
turndown(doc) ==
    walked(doc, process(Elem("x-turndown", <<>>, doc), FALSE, Len(doc)))

\* ------------------------------------------------------------------------
\* HTML text <-> DOM: what the browser's HTML parser does with the markup
\* this model feeds it (elements with at most a class attribute, text
\* without markup characters, raw-text script and style elements)
\* ------------------------------------------------------------------------

\* the characters of a tag name
TagName(tag) ==
    CASE tag = "p" -> <<"p">>
      [] tag = "br" -> <<"b", "r">>
      [] tag = "pre" -> <<"p", "r", "e">>
      [] tag = "code" -> <<"c", "o", "d", "e">>
      [] tag = "style" -> <<"s", "t", "y", "l", "e">>
      [] tag = "script" -> <<"s", "c", "r", "i", "p", "t">>

KnownTags == {"p", "br", "pre", "code", "style", "script"}

ClassAttr == <<" ", "c", "l", "a", "s", "s", "=", "\"">>

\* the start tag of an element
startTag(n) ==
    <<"<">> \o TagName(n.tag)
        \o (IF n.class = <<>> THEN <<>> ELSE ClassAttr \o n.class \o <<"\"">>)
        \o <<">">>

\* Element.outerHTML / Text data of a node, and of a sequence of nodes
RECURSIVE outerHTML(_)
outerHTML(n) ==
    IF IsText(n)
    THEN n.text
    ELSE IF n.tag \in VoidTags
    THEN startTag(n)
    ELSE startTag(n)
         \o Concat([i \in 1..Len(n.kids) |-> outerHTML(n.kids[i])])
         \o <<"<", "/">> \o TagName(n.tag) \o <<">">>

innerHTML(doc) == Concat([i \in 1..Len(doc) |-> outerHTML(doc[i])])

\* the first position >= i of s that holds character c (Len(s) + 1 if none)
RECURSIVE IndexFrom(_, _, _)
IndexFrom(s, i, c) ==
    IF i > Len(s) \/ s[i] = c THEN i ELSE IndexFrom(s, i + 1, c)

\* a node in front of the nodes that follow it
prepend(node, rest) ==
    [nodes |-> <<node>> \o rest.nodes, next |-> rest.next]

\* the value of the class attribute of a start tag that ends at gt
classAt(s, attrAt, gt) ==
    IF OccursAt(s, attrAt, ClassAttr)
    THEN SubSeq(s, attrAt + Len(ClassAttr), gt - 2)
    ELSE <<>>

\* the position where the content of an element starts: a newline right
\* after <pre> is dropped
contentStart(s, gt, tag) ==
    IF tag = "pre" /\ gt < Len(s) /\ s[gt + 1] = NL THEN gt + 2 ELSE gt + 1

\* The parser, from position i of s: the nodes up to the end tag that closes
\* the enclosing element (or the end of the text), and the position after it.
RECURSIVE parseNodes(_, _)
RECURSIVE parseText(_, _, _)
RECURSIVE parseStartTag(_, _, _, _)
RECURSIVE parseElement(_, _, _, _)
RECURSIVE parseRawText(_, _, _, _, _)
RECURSIVE parseChildren(_, _, _, _)
parseNodes(s, i) ==
    IF i > Len(s)
    THEN [nodes |-> <<>>, next |-> i]
    ELSE IF s[i] # "<"
    THEN parseText(s, i, IndexFrom(s, i, "<"))
    ELSE IF i < Len(s) /\ s[i + 1] = "/"
    THEN \* the end tag of the enclosing element
         [nodes |-> <<>>, next |-> IndexFrom(s, i, ">") + 1]
    ELSE parseStartTag(s, i, IndexFrom(s, i, ">"),
                       LeadingRun(SubSeq(s, i + 1, Len(s)), Letters))

\* character data from i up to the next tag at j
parseText(s, i, j) ==
    prepend(TextNode(SubSeq(s, i, j - 1)), parseNodes(s, j))

\* a start tag from i to gt whose name has nameLen letters
parseStartTag(s, i, gt, nameLen) ==
    parseElement(s, gt,
                 CHOOSE t \in KnownTags : TagName(t) = SubSeq(s, i + 1, i + nameLen),
                 classAt(s, i + nameLen + 1, gt))

\* the element of a start tag that ends at gt, and the nodes after it
parseElement(s, gt, tag, class) ==
    IF tag \in VoidTags
    THEN prepend(Elem(tag, class, <<>>), parseNodes(s, gt + 1))
    ELSE IF tag \in {"script", "style"}
    THEN parseRawText(s, gt, tag, class, IndexFrom(s, gt + 1, "<"))
    ELSE parseChildren(s, tag, class, parseNodes(s, contentStart(s, gt, tag)))

\* a script or style element: raw text up to the end tag at lt
parseRawText(s, gt, tag, class, lt) ==
    prepend(Elem(tag, class,
                 IF lt = gt + 1 THEN <<>>
                 ELSE <<TextNode(SubSeq(s, gt + 1, lt - 1))>>),
            parseNodes(s, IndexFrom(s, lt, ">") + 1))

\* an element with the children inner, and the nodes after its end tag
parseChildren(s, tag, class, inner) ==
    prepend(Elem(tag, class, inner.nodes), parseNodes(s, inner.next))

\* the children of the root element Turndown parses html into
parseHTML(s) == parseNodes(s, 1).nodes

\* ------------------------------------------------------------------------
\* converter.js: convertHtmlToMarkdown;  formatter.js: formatMarkdown;
\* main.js: processHtmlToMarkdown
\* ------------------------------------------------------------------------

InvalidHtmlInput == "Invalid HTML input: expected a non-empty string"

InvalidMarkdownInput == "Invalid markdown input: expected a non-empty string"

\* return turndownService.turndown(html)
returned(w) ==
    [threw |-> FALSE, error |-> "", value |-> w.out,
     walked |-> TRUE, visits |-> w.visits]

\* throw new Error("Invalid HTML input: expected a non-empty string")
thrown(message) ==
    [threw |-> TRUE, error |-> message, value |-> <<>>,
     walked |-> FALSE, visits |-> {}]

\* a variant that checks the type of its argument only
convertHtmlToMarkdown_TypeOnly(html) ==
    IF html.t # "string"
    THEN thrown(InvalidHtmlInput)
    ELSE returned(turndown(parseHTML(html.v)))

\* The outcome of convertHtmlToMarkdown(html): it throws, or it returns the
\* Markdown that the tree walk emits.  walked: Turndown ran; visits: the rule
\* applications of the walk.
convertHtmlToMarkdown(html) ==
    IF Falsy(html) \/ html.t # "string"
    THEN thrown(InvalidHtmlInput)
    ELSE returned(turndown(parseHTML(html.v)))

\* What prettier.format(markdown, mergedOptions) can do: resolve with the
\* formatted text (surrounding blank space dropped, one final newline), or
\* reject.  Prettier is an external collaborator; which of the two happens is
\* an input of the model.
PrettierOutcomes(markdown) ==
    {[called |-> TRUE, ok |-> TRUE, value |-> Trim(markdown) \o <<NL>>],
     [called |-> TRUE, ok |-> FALSE, value |-> <<>>]}

\* prettier.format was not called
NotCalled == [called |-> FALSE, ok |-> FALSE, value |-> <<>>]

\* formatMarkdown throws before it calls Prettier
formatMarkdownThrows(markdown) == Falsy(markdown) \/ markdown.t # "string"

\* a variant whose catch block lets Prettier's error through
formatMarkdown_Rethrow(markdown, outcome) ==
    IF formatMarkdownThrows(markdown)
    THEN [state |-> "rejected", error |-> InvalidMarkdownInput, value |-> <<>>]
    ELSE IF outcome.ok
         THEN [state |-> "resolved", error |-> "", value |-> outcome.value]
         ELSE [state |-> "rejected", error |-> "Prettier formatting failed",
               value |-> <<>>]

\* How the promise of formatMarkdown(markdown) settles, given Prettier's outcome
formatMarkdown(markdown, outcome) ==
    IF formatMarkdownThrows(markdown)
    THEN [state |-> "rejected", error |-> InvalidMarkdownInput, value |-> <<>>]
    ELSE IF outcome.ok
         THEN [state |-> "resolved", error |-> "", value |-> outcome.value]
         ELSE [state |-> "resolved", error |-> "", value |-> markdown.v]

\* the rest of processHtmlToMarkdown once convertHtmlToMarkdown is done
formatConverted(conv, outcome) ==
    IF conv.threw
    THEN [state |-> "rejected", error |-> conv.error, value |-> <<>>]
    ELSE formatMarkdown(Str(conv.value), outcome)

\* How the promise of processHtmlToMarkdown(html) settles, given Prettier's
\* outcome
processHtmlToMarkdown(html, outcome) ==
    formatConverted(convertHtmlToMarkdown(html), outcome)

\* ------------------------------------------------------------------------
\* The documents and values the model draws its inputs from
\* ------------------------------------------------------------------------

\* the longest child list of a generated code or pre element
MaxKids == 2

tA == <<"a">>

tTick == <<BT>>

tPre == <<" ", "a", NL>>

tSpace == <<" ">>

\* the text of script and style elements: a character no other text holds
tBang == <<"!">>

clsLanguageJs == <<"l", "a", "n", "g", "u", "a", "g", "e", "-", "j", "s">>

clsHljsLangPy == <<"h", "l", "j", "s", " ", "l", "a", "n", "g", "-", "p", "y">>

clsDangling ==
    <<"l", "a", "n", "g", "u", "a", "g", "e", "-", " ",
      "l", "a", "n", "g", "-", "p", "y", " ", "x">>

clsLangOnly == <<"l", "a", "n", "g", "-">>

Script == Elem("script", <<>>, <<TextNode(tBang)>>)

Style == Elem("style", <<>>, <<TextNode(tBang)>>)

Br == Elem("br", <<>>, <<>>)

P(kids) == Elem("p", <<>>, kids)

\* the child lists over S of length at most n that a parser can produce: no
\* two text nodes side by side, and no newline right after <pre>
KidSeqs(S, n) ==
    {k \in UNION {[1..m -> S] : m \in 0..n} :
        \A i \in 1..(Len(k) - 1) : ~(IsText(k[i]) /\ IsText(k[i + 1]))}

\* code elements outside pre
InlineCodes ==
    {Elem("code", <<>>, k) :
        k \in KidSeqs({TextNode(tA), TextNode(tTick), Br, Script}, MaxKids)}

\* code elements inside pre
NestedCodes ==
    {Elem("code", c, k) :
        c \in {<<>>, clsLanguageJs, clsHljsLangPy, clsDangling, clsLangOnly},
        k \in {<<TextNode(tPre)>>, <<Script>>}}

Pres ==
    {Elem("pre", c, k) :
        c \in {<<>>, clsLanguageJs},
        k \in KidSeqs({TextNode(tPre), TextNode(tTick), TextNode(tSpace), Script}
                          \cup NestedCodes, MaxKids)}

Docs ==
    {<<TextNode(tA)>>, <<TextNode(tA \o tTick)>>, <<TextNode(tSpace)>>,
     <<P(<<TextNode(tA)>>)>>, <<Script>>, <<Style>>,
     <<Script, P(<<TextNode(tA)>>)>>, <<P(<<TextNode(tTick)>>), Style>>}
    \cup {<<c>> : c \in InlineCodes}
    \cup {<<P(<<c>>)>> : c \in InlineCodes}
    \cup {<<p>> : p \in Pres}

\* the arguments a caller can hand to the exported functions
Inputs ==
    {Undefined, Null, Num(0), Num(5), Str(<<>>)}
    \cup {Str(innerHTML(d)) : d \in Docs}

\* ------------------------------------------------------------------------
\* ui.js: the page as the handlers see it.  A page is a record
\*   htmlInput, markdownOutput      the values of the two textareas
\*   copyBtnDisabled                copyBtn.disabled
\*   convertBtnDisabled, convertBtnLabel
\*   statusText, statusClass        the status indicator
\*   toastText, toastClass          the toast
\*   toastTimeout                   the module variable (0 is null)
\*   timers                         the timeouts that are pending
\* ------------------------------------------------------------------------

setHtmlInputValue(u, value) == [u EXCEPT !.htmlInput = value]

\* a variant that sets the value and leaves the Copy button as it is
setMarkdownOutputValue_KeepsButton(u, value) ==
    [u EXCEPT !.markdownOutput = value]

setMarkdownOutputValue(u, value) ==
    [u EXCEPT !.markdownOutput = value,
              !.copyBtnDisabled = (value = <<>> \/ Trim(value) = <<>>)]

updateStatus(u, message, type) ==
    [u EXCEPT !.statusText = message,
              !.statusClass = IF type # "" THEN "status " \o type ELSE "status"]

clearHtmlInput(u) == setHtmlInputValue(u, <<>>)

clearMarkdownOutput(u) == updateStatus(setMarkdownOutputValue(u, <<>>), "", "")

\* the handle setTimeout returns: the least one that no pending timeout has
FreshTimer(pending) ==
    CHOOSE id \in 1..(Cardinality(pending) + 1) :
        /\ id \notin pending
        /\ \A o \in 1..(id - 1) : o \in pending

\* a variant that leaves the timeout of the previous toast pending
clearedTimers_KeepsTimer(u) == u.timers

\* if (toastTimeout) clearTimeout(toastTimeout)
clearedTimers(u) ==
    IF u.toastTimeout # 0 THEN u.timers \ {u.toastTimeout} ELSE u.timers

\* the toast shown, with the timeout id that hides it
shownToast(u, message, type, id) ==
    [u EXCEPT !.toastText = message,
              !.toastClass = IF type # "" THEN "toast visible " \o type
                             ELSE "toast visible",
              !.toastTimeout = id,
              !.timers = clearedTimers(u) \cup {id}]

showToast(u, message, type) ==
    shownToast(u, message, type, FreshTimer(clearedTimers(u)))

\* a variant whose else branch leaves the Convert button as it is
setProcessingState_StaysDisabled(u, isProcessing) ==
    IF isProcessing
    THEN updateStatus([u EXCEPT !.convertBtnDisabled = TRUE,
                                !.convertBtnLabel = "Converting..."],
                      "Processing...", "")
    ELSE u

setProcessingState(u, isProcessing) ==
    IF isProcessing
    THEN updateStatus([u EXCEPT !.convertBtnDisabled = TRUE,
                                !.convertBtnLabel = "Converting..."],
                      "Processing...", "")
    ELSE [u EXCEPT !.convertBtnDisabled = FALSE,
                   !.convertBtnLabel = "Convert"]

\* ------------------------------------------------------------------------
\* main.js: handleConversion, in the two parts that its await separates
\* ------------------------------------------------------------------------

\* `Error: ${error.message}`
ErrorToast(message) == "Error: " \o message

\* a variant whose catch block also empties the Markdown output
conversionFailed_ClearsOutput(u, error) ==
    setProcessingState(
        showToast(updateStatus(setMarkdownOutputValue(u, <<>>),
                               "Conversion failed", "error"),
                  ErrorToast(error), "error"),
        FALSE)

\* the catch and finally blocks of handleConversion
conversionFailed(u, error) ==
    setProcessingState(
        showToast(updateStatus(u, "Conversion failed", "error"),
                  ErrorToast(error), "error"),
        FALSE)

\* the try block of handleConversion up to the await inside formatMarkdown,
\* with conv the outcome of convertHtmlToMarkdown
awaitProcess(u, conv) ==
    IF conv.threw \/ formatMarkdownThrows(Str(conv.value))
    THEN [ui |-> conversionFailed(u, formatConverted(conv, NotCalled).error),
          suspended |-> FALSE, raw |-> <<>>]
    ELSE [ui |-> u, suspended |-> TRUE, raw |-> conv.value]

\* handleConversion(html) up to its await: [ui, suspended, raw].  It returns
\* after a toast, or fails at once (processHtmlToMarkdown threw before any
\* await), or is suspended on Prettier with the raw Markdown in hand.
handleConversionStart(u, html) ==
    IF html = <<>> \/ Trim(html) = <<>>
    THEN [ui |-> showToast(u, "No HTML content to convert", "error"),
          suspended |-> FALSE, raw |-> <<>>]
    ELSE IF ~isValidHtml(Str(html))
    THEN [ui |-> showToast(u, "Input does not appear to contain valid HTML",
                           "error"),
          suspended |-> FALSE, raw |-> <<>>]
    ELSE awaitProcess(setProcessingState(u, TRUE),
                      convertHtmlToMarkdown(Str(html)))

\* the rest of handleConversion once processHtmlToMarkdown has settled as r
afterProcess(u, r) ==
    IF r.state = "resolved"
    THEN setProcessingState(
             showToast(
                 updateStatus(setMarkdownOutputValue(u, r.value),
                              "Converted successfully", "success"),
                 "HTML converted to Markdown!", "success"),
             FALSE)
    ELSE conversionFailed(u, r.error)

\* handleConversion after its await, once Prettier has settled
handleConversionResume(u, raw, outcome) ==
    afterProcess(u, formatMarkdown(Str(raw), outcome))

\* ------------------------------------------------------------------------
\* clipboard.js: reading the paste event;  main.js: handleDocumentPaste
\* A paste event is [target, hasData, html, plain]: its target, whether it
\* has a clipboardData, and what getData gives for text/html and text/plain
\* ("" when the clipboard has no such representation).
\* ------------------------------------------------------------------------

\* a variant that returns any non-empty text/html payload, blank or not
getHtmlFromClipboardEvent_NoTrim(event) ==
    IF ~event.hasData
    THEN <<>>
    ELSE IF event.html # <<>>
         THEN <<event.html>>
         ELSE <<>>

\* <<>> is null, <<s>> the string s
getHtmlFromClipboardEvent(event) ==
    IF ~event.hasData
    THEN <<>>
    ELSE IF event.html # <<>> /\ Trim(event.html) # <<>>
         THEN <<event.html>>
         ELSE <<>>

getPlainTextFromClipboardEvent(event) ==
    IF ~event.hasData THEN <<>> ELSE <<event.plain>>

\* setHtmlInputValue(text); await handleConversion(text), with h what
\* handleConversion did up to its await
pasteConverted(text, h) ==
    [ui |-> h.ui, prevented |-> TRUE, read |-> TRUE, called |-> <<text>>,
     suspended |-> h.suspended, raw |-> h.raw]

pasteConvert(u, text) ==
    pasteConverted(text,
                   handleConversionStart(setHtmlInputValue(u, text), text))

\* showToast(message, "error"); handleConversion is not called
pasteToast(u, message) ==
    [ui |-> showToast(u, message, "error"), prevented |-> TRUE, read |-> TRUE,
     called |-> <<>>, suspended |-> FALSE, raw |-> <<>>]

\* the branches of handleDocumentPaste on what the clipboard gave
pasteBranches(u, html, plainText) ==
    IF html # <<>>
    THEN pasteConvert(u, html[1])
    ELSE IF plainText # <<>> /\ plainText[1] # <<>>
              /\ isValidHtml(Str(plainText[1]))
    THEN pasteConvert(u, plainText[1])
    ELSE IF plainText # <<>> /\ plainText[1] # <<>>
    THEN pasteToast(setHtmlInputValue(u, plainText[1]),
                    "Pasted text does not appear to be HTML")
    ELSE pasteToast(u, "No content in clipboard")

\* a variant that does not look at the target of the event
handleDocumentPaste_AnyTarget(u, event) ==
    pasteBranches(u, getHtmlFromClipboardEvent(event),
                  getPlainTextFromClipboardEvent(event))

\* handleDocumentPaste(event) up to the await of handleConversion:
\* [ui, prevented, read, called, suspended, raw]; called is <<>> or <<the
\* argument handleConversion was called with>>
handleDocumentPaste(u, event) ==
    IF event.target = "html-input"
    THEN [ui |-> u, prevented |-> FALSE, read |-> FALSE, called |-> <<>>,
          suspended |-> FALSE, raw |-> <<>>]
    ELSE pasteBranches(u, getHtmlFromClipboardEvent(event),
                       getPlainTextFromClipboardEvent(event))

\* ------------------------------------------------------------------------
\* clipboard.js: copyToClipboard.  What the browser does is an input:
\*   primary   navigator.clipboard.writeText resolves ("ok") or fails
\*   fallback  how the textarea fallback goes: "copied" (execCommand returns
\*             true), "refused" (execCommand returns false), "throwsEarly"
\*             (an exception before appendChild), "throwsLate" (an exception
\*             after appendChild and before removeChild)
\* The result is [returned, primaryOk, fallbackTried, copied, leftover]: the
\* boolean the promise resolves to, what was attempted, whether the text
\* reached the clipboard, and the textareas left in document.body.
\* ------------------------------------------------------------------------

FallbackOutcomes == {"copied", "refused", "throwsEarly", "throwsLate"}

copyToClipboard(primary, fallback) ==
    IF primary = "ok"
    THEN [returned |-> TRUE, primaryOk |-> TRUE, fallbackTried |-> FALSE,
          copied |-> TRUE, leftover |-> 0]
    ELSE CASE fallback = "copied" ->
                [returned |-> TRUE, primaryOk |-> FALSE, fallbackTried |-> TRUE,
                 copied |-> TRUE, leftover |-> 0]
           [] fallback = "refused" ->
                [returned |-> TRUE, primaryOk |-> FALSE, fallbackTried |-> TRUE,
                 copied |-> FALSE, leftover |-> 0]
           [] fallback = "throwsEarly" ->
                [returned |-> FALSE, primaryOk |-> FALSE, fallbackTried |-> TRUE,
                 copied |-> FALSE, leftover |-> 0]
           [] fallback = "throwsLate" ->
                [returned |-> FALSE, primaryOk |-> FALSE, fallbackTried |-> TRUE,
                 copied |-> FALSE, leftover |-> 1]

\* ------------------------------------------------------------------------
\* State
\* ------------------------------------------------------------------------

VARIABLES
    cInput,     \* the argument of a call of processHtmlToMarkdown
    cPc,        \* where that call is: "called", "formatting", "settled"
    cConv,      \* the outcome of its convertHtmlToMarkdown step
    cPrettier,  \* what Prettier did in its formatMarkdown step
    cResult,    \* how its promise settled
    ui,         \* the page (see ui.js above)
    inflight,   \* the handleConversion calls suspended at their await, in
                \* the order they started: each [html, raw]
    copying,    \* the number of copyToClipboard calls that await writeText
    textareas,  \* the textareas of the copy fallback attached to document.body
    lastPaste,  \* when the last step was a paste: the event and what
                \* handleDocumentPaste did with it (NoPaste otherwise)
    lastCopy,   \* when the last step finished a copyToClipboard call: its
                \* result (NoCopy otherwise)
    latest      \* the handleConversion call that entered the processing state
                \* last: "none" before any did, "suspended" while it is at
                \* its await, "finished" once it has run to its end

cvars == <<cInput, cPc, cConv, cPrettier, cResult>>

appvars == <<ui, inflight, copying, textareas, lastPaste, lastCopy, latest>>

vars == <<cInput, cPc, cConv, cPrettier, cResult,
          ui, inflight, copying, textareas, lastPaste, lastCopy, latest>>

NoConv ==
    [threw |-> FALSE, error |-> "", value |-> <<>>, walked |-> FALSE,
     visits |-> {}]

Pending == [state |-> "pending", error |-> "", value |-> <<>>]

\* ------------------------------------------------------------------------
\* A call of the pipeline with any argument (convertHtmlToMarkdown and
\* formatMarkdown are exported; processHtmlToMarkdown sequences them)
\* ------------------------------------------------------------------------

\* the page as loaded, before any event
InitialPages ==
    {[htmlInput |-> <<>>, markdownOutput |-> <<>>, copyBtnDisabled |-> d,
      convertBtnDisabled |-> FALSE, convertBtnLabel |-> "Convert",
      statusText |-> "", statusClass |-> "status",
      toastText |-> "", toastClass |-> "toast",
      toastTimeout |-> 0, timers |-> {}] : d \in BOOLEAN}

NoPaste ==
    [done |-> FALSE,
     event |-> [target |-> "", hasData |-> FALSE, html |-> <<>>, plain |-> <<>>],
     prevented |-> FALSE, read |-> FALSE, called |-> <<>>]

NoCopy ==
    [done |-> FALSE, returned |-> FALSE, primaryOk |-> FALSE,
     fallbackTried |-> FALSE, copied |-> FALSE, leftover |-> 0]

InitApp ==
    /\ ui \in InitialPages
    /\ inflight = <<>>
    /\ copying = 0
    /\ textareas = 0
    /\ lastPaste = NoPaste
    /\ lastCopy = NoCopy
    /\ latest = "none"

InitConvert ==
    /\ cInput \in Inputs
    /\ cPc = "called"
    /\ cConv = NoConv
    /\ cPrettier = NotCalled
    /\ cResult = Pending
    /\ ui = CHOOSE u \in InitialPages : u.copyBtnDisabled
    /\ inflight = <<>>
    /\ copying = 0
    /\ textareas = 0
    /\ lastPaste = NoPaste
    /\ lastCopy = NoCopy
    /\ latest = "none"

\* main.js, processHtmlToMarkdown, step 1
ConvertStep ==
    /\ cPc = "called"
    /\ cConv' = convertHtmlToMarkdown(cInput)
    /\ IF cConv'.threw
       THEN /\ cPc' = "settled"
            /\ cResult' = processHtmlToMarkdown(cInput, NotCalled)
       ELSE /\ cPc' = "formatting"
            /\ cResult' = cResult
    /\ UNCHANGED <<cInput, cPrettier>>
    /\ UNCHANGED appvars

\* main.js, processHtmlToMarkdown, step 2: formatMarkdown throws at once, or
\* awaits Prettier and settles with its outcome
FormatStep ==
    /\ cPc = "formatting"
    /\ \E outcome \in PrettierOutcomes(cConv.value) :
          /\ cPrettier' = IF formatMarkdownThrows(Str(cConv.value))
                          THEN NotCalled ELSE outcome
          /\ cResult' = processHtmlToMarkdown(cInput, cPrettier')
    /\ cPc' = "settled"
    /\ UNCHANGED <<cInput, cConv>>
    /\ UNCHANGED appvars

NextConvert == ConvertStep \/ FormatStep

SpecConvert == InitConvert /\ [][NextConvert]_vars

\* ------------------------------------------------------------------------
\* The application: the events of main.js, registerEventHandlers
\* ------------------------------------------------------------------------

\* the most handleConversion calls suspended at once
MaxInFlight == 2

\* the most copyToClipboard calls pending at once
MaxCopies == 1

\* the most fallback textareas left in the document
MaxTextareas == 1

htmlParagraph == innerHTML(<<P(<<TextNode(tA)>>)>>)

htmlScriptOnly == innerHTML(<<Script>>)

htmlInlineCode == innerHTML(<<Elem("code", <<>>, <<TextNode(tTick)>>)>>)

\* what getData("text/html") and getData("text/plain") can give
ClipboardHtml == {<<>>, tSpace, tA, htmlParagraph, htmlScriptOnly}

ClipboardPlain == {<<>>, tA, htmlInlineCode}

PasteEvents ==
    {e \in [target : {"html-input", "document"}, hasData : BOOLEAN,
            html : ClipboardHtml, plain : ClipboardPlain] :
        ~e.hasData => e.html = <<>> /\ e.plain = <<>>}

\* what the user can type into the HTML input
UserTexts == {htmlParagraph}

\* a handleConversion call that got suspended joins the calls in flight
Suspend(h, html) ==
    /\ inflight' = IF h.suspended
                   THEN Append(inflight, [html |-> html, raw |-> h.raw])
                   ELSE inflight
    /\ latest' = IF html = <<>> \/ Trim(html) = <<>> \/ ~isValidHtml(Str(html))
                 THEN latest
                 ELSE IF h.suspended THEN "suspended" ELSE "finished"

\* what the step leaves for the properties to see
Observed(paste, copy) == lastPaste' = paste /\ lastCopy' = copy

\* the user edits the HTML input (typing, or the default paste into it)
UserTypes ==
    /\ \E text \in UserTexts : ui' = setHtmlInputValue(ui, text)
    /\ UNCHANGED <<inflight, latest, copying, textareas>>
    /\ Observed(NoPaste, NoCopy)
    /\ UNCHANGED cvars

\* the page, the calls in flight and the observation after a paste handled as h
Pasted(event, h) ==
    /\ ui' = h.ui
    /\ Suspend(h, IF h.called # <<>> THEN h.called[1] ELSE <<>>)
    /\ lastPaste' = [done |-> TRUE, event |-> event,
                     prevented |-> h.prevented, read |-> h.read,
                     called |-> h.called]

\* document "paste" with one of the given events: handleDocumentPaste
PasteOf(events) ==
    /\ Len(inflight) < MaxInFlight
    /\ \E event \in events : Pasted(event, handleDocumentPaste(ui, event))
    /\ UNCHANGED <<copying, textareas>>
    /\ lastCopy' = NoCopy
    /\ UNCHANGED cvars

DocumentPaste == PasteOf(PasteEvents)

\* the paste events that carry a text/html payload and nothing else
HtmlPasteEvents ==
    {e \in PasteEvents :
        /\ e.hasData
        /\ e.html \in {htmlParagraph, htmlScriptOnly}
        /\ e.plain = <<>>}

HtmlPaste == PasteOf(HtmlPasteEvents)

\* the page and the calls in flight after handleConversion(html) ran up to
\* its await as h
Started(html, h) ==
    /\ ui' = h.ui
    /\ Suspend(h, html)

\* handleConvertClick(): handleConversion(getHtmlInputValue())
handleConvertClick ==
    Started(ui.htmlInput, handleConversionStart(ui, ui.htmlInput))

\* convert-btn "click": a disabled button gets no click
ConvertClick ==
    /\ Len(inflight) < MaxInFlight
    /\ ~ui.convertBtnDisabled
    /\ handleConvertClick
    /\ UNCHANGED <<copying, textareas>>
    /\ Observed(NoPaste, NoCopy)
    /\ UNCHANGED cvars

\* document "keydown": handleKeyboardShortcuts
KeyDown ==
    /\ Len(inflight) < MaxInFlight
    /\ \E mod \in BOOLEAN, key \in {"Enter", "a"} :
          IF mod /\ key = "Enter"
          THEN handleConvertClick
          ELSE UNCHANGED <<ui, inflight, latest>>
    /\ UNCHANGED <<copying, textareas>>
    /\ Observed(NoPaste, NoCopy)
    /\ UNCHANGED cvars

\* Prettier settles for one of the suspended calls, which then runs to its end
FormatterSettles ==
    /\ \E i \in 1..Len(inflight) :
          \E outcome \in PrettierOutcomes(inflight[i].raw) :
              /\ ui' = handleConversionResume(ui, inflight[i].raw, outcome)
              /\ inflight' = SubSeq(inflight, 1, i - 1)
                                 \o SubSeq(inflight, i + 1, Len(inflight))
              /\ latest' = IF i = Len(inflight) /\ latest = "suspended"
                           THEN "finished" ELSE latest
    /\ UNCHANGED <<copying, textareas>>
    /\ Observed(NoPaste, NoCopy)
    /\ UNCHANGED cvars

\* copy-btn "click": handleCopyClick up to the await of copyToClipboard
CopyClick ==
    /\ copying < MaxCopies
    /\ ~ui.copyBtnDisabled
    /\ IF ui.markdownOutput = <<>> \/ Trim(ui.markdownOutput) = <<>>
       THEN /\ ui' = showToast(ui, "No Markdown to copy", "error")
            /\ copying' = copying
       ELSE /\ ui' = ui
            /\ copying' = copying + 1
    /\ UNCHANGED <<inflight, latest, textareas>>
    /\ Observed(NoPaste, NoCopy)
    /\ UNCHANGED cvars

\* the rest of handleCopyClick once copyToClipboard has resolved as r
Copied(r) ==
    /\ textareas + r.leftover <= MaxTextareas
    /\ textareas' = textareas + r.leftover
    /\ lastCopy' = [done |-> TRUE,
                    returned |-> r.returned,
                    primaryOk |-> r.primaryOk,
                    fallbackTried |-> r.fallbackTried,
                    copied |-> r.copied, leftover |-> r.leftover]
    /\ ui' = IF r.returned
             THEN showToast(ui, "Markdown copied to clipboard!", "success")
             ELSE showToast(ui, "Failed to copy to clipboard", "error")

\* writeText settles; copyToClipboard and then handleCopyClick run to their end
CopySettles ==
    /\ copying > 0
    /\ \E primary \in {"ok", "fails"}, fallback \in FallbackOutcomes :
          Copied(copyToClipboard(primary, fallback))
    /\ copying' = copying - 1
    /\ UNCHANGED <<inflight, latest>>
    /\ lastPaste' = NoPaste
    /\ UNCHANGED cvars

\* clear-input-btn "click": handleClearInputClick
ClearInputClick ==
    /\ ui' = showToast(clearHtmlInput(ui), "Input cleared", "")
    /\ UNCHANGED <<inflight, latest, copying, textareas>>
    /\ Observed(NoPaste, NoCopy)
    /\ UNCHANGED cvars

\* clear-output-btn "click": handleClearOutputClick
ClearOutputClick ==
    /\ ui' = showToast(clearMarkdownOutput(ui), "Output cleared", "")
    /\ UNCHANGED <<inflight, latest, copying, textareas>>
    /\ Observed(NoPaste, NoCopy)
    /\ UNCHANGED cvars

\* a pending timeout of showToast fires: toast.className = "toast"
ToastTimerFires ==
    /\ \E id \in ui.timers :
          ui' = [ui EXCEPT !.toastClass = "toast", !.timers = @ \ {id}]
    /\ UNCHANGED <<inflight, latest, copying, textareas>>
    /\ Observed(NoPaste, NoCopy)
    /\ UNCHANGED cvars

InitIdle ==
    /\ cInput = Undefined
    /\ cPc = "idle"
    /\ cConv = NoConv
    /\ cPrettier = NotCalled
    /\ cResult = Pending

Init == InitApp /\ InitIdle

\* The page under every event that starts, finishes or surrounds a
\* conversion: typing, paste, the Convert button, the keyboard shortcut, the
\* Clear buttons, Prettier settling and the toast's timer.
Next ==
    \/ UserTypes
    \/ DocumentPaste
    \/ ConvertClick
    \/ KeyDown
    \/ FormatterSettles
    \/ ClearInputClick
    \/ ClearOutputClick
    \/ ToastTimerFires

Spec == Init /\ [][Next]_vars

\* The page under the Copy button, with the events that fill and clear the
\* output it copies.
NextCopy ==
    \/ UserTypes
    \/ ConvertClick
    \/ FormatterSettles
    \/ CopyClick
    \/ CopySettles
    \/ ClearInputClick
    \/ ClearOutputClick
    \/ ToastTimerFires

SpecCopy == Init /\ [][NextCopy]_vars

\* The formatter's promise settles and a pending timeout fires: neither is
\* put off for ever.
Fairness == WF_vars(FormatterSettles) /\ WF_vars(ToastTimerFires)

\* The page under the events of Next, with the pastes that carry HTML only
NextLive ==
    \/ UserTypes
    \/ HtmlPaste
    \/ ConvertClick
    \/ KeyDown
    \/ FormatterSettles
    \/ ClearInputClick
    \/ ClearOutputClick
    \/ ToastTimerFires

SpecLive == Init /\ [][NextLive]_vars /\ Fairness

\* ------------------------------------------------------------------------
\* Properties of the pipeline
\* ------------------------------------------------------------------------

\* the rule applications of the walk on pre elements / by the inlineCode rule
PreVisits == {v \in cConv.visits : v.node.tag = "pre"}

InlineCodeVisits == {v \in cConv.visits : v.rule = "inlineCode"}

\* C1 (as specified): every input that is missing, empty, not a string or
\* without an HTML tag pattern makes the pipeline fail with the invalid-input
\* error, before the tree walk runs.
C1_AsClaimed ==
    (cPc # "called" /\ ~isValidHtml(cInput)) =>
        /\ cConv.threw
        /\ cConv.error = InvalidHtmlInput
        /\ ~cConv.walked

\* C1 (as implemented): the pipeline fails with the invalid-input error, before the
\* tree walk and with no Markdown produced, exactly for the inputs that are
\* missing, empty or not a string; on every non-empty string, HTML-shaped or
\* not, the tree walk runs.
C1_InvalidInputRejected ==
    cPc # "called" =>
        IF cInput.t # "string" \/ cInput.v = <<>>
        THEN /\ cConv.threw
             /\ cConv.error = InvalidHtmlInput
             /\ ~cConv.walked
             /\ cConv.value = <<>>
             /\ cPc = "settled"
             /\ cResult.state = "rejected"
             /\ cResult.error = InvalidHtmlInput
        ELSE ~cConv.threw /\ cConv.walked

C1_Witness ==
    /\ cPc = "settled"
    /\ cInput \in {Undefined, Str(<<>>), Num(5)}
    /\ cResult.state = "rejected"

\* C3: when prettier.format fails on a non-empty Markdown string,
\* formatMarkdown resolves to exactly the string it was given.
C3_FormatFailureKeepsInput ==
    (cPc = "settled" /\ cPrettier.called /\ ~cPrettier.ok) =>
        /\ cConv.value # <<>>
        /\ cResult.state = "resolved"
        /\ cResult.value = cConv.value

C3_Witness ==
    /\ cPc = "settled"
    /\ cPrettier.called
    /\ ~cPrettier.ok
    /\ Len(cConv.value) > 3
    /\ cResult.value = cConv.value

\* C4 (as specified): the text of a script, style or noscript element is
\* nowhere in the emitted Markdown (that text is "!" in every document).
C4_NoScriptText == cConv.walked => ~Includes(cConv.value, "!")

\* C5 (as specified): the inlineCode replacement is empty when the content is
\* empty, double-backtick wrapped with padding when the content holds a
\* backtick, and single-backtick wrapped in every other case.
C5_AsClaimed ==
    \A v \in InlineCodeVisits :
        v.out = IF v.content = <<>> THEN <<>>
                ELSE IF \E i \in 1..Len(v.content) : v.content[i] = BT
                THEN <<BT, BT, " ">> \o v.content \o <<" ", BT, BT>>
                ELSE <<BT>> \o v.content \o <<BT>>

\* C5 (as implemented): the inlineCode replacement is empty when the content is empty
\* or only whitespace, and wrapped as specified in every other case.
C5_InlineCode ==
    \A v \in InlineCodeVisits :
        v.out = IF \A i \in 1..Len(v.content) : v.content[i] \in Whitespace
                THEN <<>>
                ELSE IF \E i \in 1..Len(v.content) : v.content[i] = BT
                THEN <<BT, BT, " ">> \o v.content \o <<" ", BT, BT>>
                ELSE <<BT>> \o v.content \o <<BT>>

C5_Witness ==
    \E v \in InlineCodeVisits :
        /\ v.content # <<>>
        /\ \A i \in 1..Len(v.content) : v.content[i] \in Whitespace
        /\ v.out = <<>>

\* the text a pre element's block is built from: that of its first nested
\* code element, else its own
PreText(pre) ==
    LET codes == {i \in 1..Len(Descendants(pre)) : Descendants(pre)[i].tag = "code"}
    IN  IF codes = {} THEN textContent(pre)
        ELSE textContent(Descendants(pre)[CHOOSE i \in codes : \A j \in codes : i <= j])

\* body is text without its leading and trailing whitespace, otherwise unchanged
IsTrimOf(body, text) ==
    /\ \E a, b \in 0..Len(text) :
          /\ a + b <= Len(text)
          /\ \A i \in 1..a : text[i] \in Whitespace
          /\ \A i \in (Len(text) - b + 1)..Len(text) : text[i] \in Whitespace
          /\ body = SubSeq(text, a + 1, Len(text) - b)
    /\ body # <<>> => body[1] \notin Whitespace /\ body[Len(body)] \notin Whitespace

\* out is a fenced block: the fence token and an info-string without newline,
\* a line break, the trimmed text, a line break, the fence token
IsFencedBlock(out, text) ==
    LET f == Options.fence
        eol == IndexFrom(out, 2 + Len(f), NL)
        body == SubSeq(out, eol + 1, Len(out) - Len(f) - 2)
    IN  /\ Len(out) >= 2 * Len(f) + 4
        /\ out[1] = NL
        /\ SubSeq(out, 2, 1 + Len(f)) = f
        /\ eol <= Len(out) - Len(f) - 2
        /\ IsTrimOf(body, text)
        /\ SubSeq(out, Len(out) - Len(f) - 1, Len(out)) = <<NL>> \o f \o <<NL>>

\* the info-string of a fenced block
InfoString(out) ==
    SubSeq(out, 2 + Len(Options.fence), IndexFrom(out, 2 + Len(Options.fence), NL) - 1)

\* Turndown hands a node to its blank rule, before any other rule, when the
\* node has only whitespace text and no void or meaningful-when-blank
\* descendant
TakenAsBlank(n) ==
    /\ \A i \in 1..Len(textContent(n)) : textContent(n)[i] \in Whitespace
    /\ \A i \in 1..Len(Descendants(n)) :
          Descendants(n)[i].tag \notin VoidTags \cup MeaningfulWhenBlankTags

\* C6 (as specified): every pre element is emitted as a fenced block of the
\* trimmed text of its nested code element, else of its own text.
C6_AsClaimed ==
    \A v \in PreVisits : IsFencedBlock(v.out, PreText(v.node))

\* C6 (as implemented): every pre element that is not blank (it has text other than
\* whitespace, or a void or meaningful-when-blank descendant such as script)
\* is emitted as such a fenced block, whatever Markdown its children emitted;
\* a blank pre element emits only a paragraph break.
C6_FencedBlock ==
    \A v \in PreVisits :
        IF TakenAsBlank(v.node)
        THEN v.out = <<NL, NL>>
        ELSE IsFencedBlock(v.out, PreText(v.node))

C6_Witness ==
    \E v \in PreVisits :
        /\ IsFencedBlock(v.out, PreText(v.node))
        /\ \E i \in 1..Len(Descendants(v.node)) : Descendants(v.node)[i].tag = "code"
        /\ PreText(v.node) # textContent(v.node)
        /\ Trim(PreText(v.node)) # PreText(v.node)
        /\ v.content # PreText(v.node)

\* lang is what /(?:language-|lang-)(\w+)/ captures in class: a longest run of
\* word characters right after the leftmost prefix that is followed by one;
\* the empty string when there is no such place
IsLanguageOf(lang, class) ==
    LET at(i, p) ==
            /\ OccursAt(class, i, p)
            /\ i + Len(p) <= Len(class)
            /\ class[i + Len(p)] \in WordChars
    IN  IF \A i \in 1..Len(class), p \in LanguagePrefixes : ~at(i, p)
        THEN lang = <<>>
        ELSE \E i \in 1..Len(class), p \in LanguagePrefixes :
                /\ at(i, p)
                /\ \A j \in 1..(i - 1), q \in LanguagePrefixes : ~at(j, q)
                /\ lang # <<>>
                /\ OccursAt(class, i + Len(p), lang)
                /\ \A k \in 1..Len(lang) : lang[k] \in WordChars
                /\ (i + Len(p) + Len(lang) > Len(class)
                      \/ class[i + Len(p) + Len(lang)] \notin WordChars)

HasNestedCode(pre) ==
    \E i \in 1..Len(Descendants(pre)) : Descendants(pre)[i].tag = "code"

FirstNestedCode(pre) ==
    Descendants(pre)[CHOOSE i \in 1..Len(Descendants(pre)) :
        /\ Descendants(pre)[i].tag = "code"
        /\ \A j \in 1..(i - 1) : Descendants(pre)[j].tag # "code"]

\* C7 (as specified): the info-string comes from the class of the nested code
\* element only, and is empty when the pre element has no nested code element.
C7_AsClaimed ==
    \A v \in PreVisits :
        v.rule = "preserveCodeBlocks" =>
            IF HasNestedCode(v.node)
            THEN IsLanguageOf(InfoString(v.out), FirstNestedCode(v.node).class)
            ELSE InfoString(v.out) = <<>>

\* C7 (as implemented): the info-string comes from the class of the nested code
\* element, and from the class of the pre element itself when it has no nested
\* code element.
C7_InfoString ==
    \A v \in PreVisits :
        v.rule = "preserveCodeBlocks" =>
            IF HasNestedCode(v.node)
            THEN IsLanguageOf(InfoString(v.out), FirstNestedCode(v.node).class)
            ELSE IsLanguageOf(InfoString(v.out), v.node.class)

C7_Witness ==
    \E v \in PreVisits :
        /\ v.rule = "preserveCodeBlocks"
        /\ ~HasNestedCode(v.node)
        /\ v.node.class # <<>>
        /\ InfoString(v.out) # <<>>

\* C2: for every input that passes validation (non-blank and HTML-shaped),
\* processHtmlToMarkdown resolves, to the formatted Markdown or to the raw
\* Markdown of convertHtmlToMarkdown; it never rejects.
C2_ValidInputResolves ==
    (cPc = "settled" /\ isValidHtml(cInput) /\ ~IsBlankStr(cInput.v)) =>
        /\ cResult.state = "resolved"
        /\ cResult.value \in {cConv.value, Trim(cConv.value) \o <<NL>>}

\* ------------------------------------------------------------------------
\* Properties of the application
\* ------------------------------------------------------------------------

\* the text/html payload of a paste event is present and not blank
HasHtmlPayload(event) ==
    event.hasData /\ event.html # <<>> /\ ~IsBlankStr(event.html)

\* the text/plain payload of a paste event is present and HTML-shaped
HasHtmlShapedText(event) ==
    event.hasData /\ event.plain # <<>> /\ isValidHtml(Str(event.plain))

\* C8: on a document-level paste (one whose target is not the HTML input),
\* handleConversion is called with the text/html payload when that payload is
\* not blank; when it is absent or blank, handleConversion is called with the
\* text/plain payload if and only if that text passes isValidHtml; in every
\* other case handleConversion is not called and the step leaves the Markdown
\* output and the status as they were.
C8_PasteRouting ==
    [][(lastPaste'.done /\ lastPaste'.event.target # "html-input") =>
          IF HasHtmlPayload(lastPaste'.event)
          THEN lastPaste'.called = <<lastPaste'.event.html>>
          ELSE IF HasHtmlShapedText(lastPaste'.event)
          THEN lastPaste'.called = <<lastPaste'.event.plain>>
          ELSE /\ lastPaste'.called = <<>>
               /\ inflight' = inflight
               /\ ui'.markdownOutput = ui.markdownOutput
               /\ ui'.copyBtnDisabled = ui.copyBtnDisabled
               /\ ui'.statusText = ui.statusText
               /\ ui'.statusClass = ui.statusClass]_vars

\* a document-level paste with a blank text/html payload and HTML-shaped
\* plain text started a conversion of the plain text
C8_Witness ==
    /\ lastPaste.done
    /\ lastPaste.event.target # "html-input"
    /\ lastPaste.event.html # <<>>
    /\ ~HasHtmlPayload(lastPaste.event)
    /\ HasHtmlShapedText(lastPaste.event)
    /\ lastPaste.called = <<lastPaste.event.plain>>
    /\ Len(inflight) > 0
    /\ inflight[Len(inflight)].html = lastPaste.event.plain
    /\ ui.htmlInput = lastPaste.event.plain

\* C9: copyToClipboard never rejects; when writeText fails it tries
\* execCommand('copy') before it reports; it resolves to false only when both
\* mechanisms failed, and to true only when one of them copied the text.
C9_ReturnsSuccessStatus ==
    lastCopy.done =>
        /\ ~lastCopy.primaryOk => lastCopy.fallbackTried
        /\ lastCopy.returned <=> lastCopy.copied

\* C10: at most one handleConversion call is suspended at the formatter
\* await at any time, whichever trigger started it.
C10_AtMostOneInFlight == Len(inflight) <= 1

\* C11: every handleConversion call that enters the processing state leaves
\* it: the step in which a call finishes leaves the Convert button enabled
\* with its normal label and the status 'Converted successfully' or
\* 'Conversion failed'; while no call is in flight the button is enabled and
\* the status is not 'Processing...'; and a disabled button, like the status
\* 'Processing...', does not last for ever.
C11_LeavesProcessing ==
    /\ [](inflight = <<>> =>
             /\ ~ui.convertBtnDisabled
             /\ ui.convertBtnLabel = "Convert"
             /\ ui.statusText # "Processing...")
    /\ [][Len(inflight') < Len(inflight) =>
             /\ ~ui'.convertBtnDisabled
             /\ ui'.convertBtnLabel = "Convert"
             /\ ui'.statusText \in {"Converted successfully", "Conversion failed"}]_vars
    /\ ui.convertBtnDisabled ~> ~ui.convertBtnDisabled
    /\ (ui.statusText = "Processing...") ~> (ui.statusText # "Processing...")

\* a conversion went through the processing state and finished
C11_Witness ==
    /\ inflight = <<>>
    /\ ui.statusText = "Converted successfully"
    /\ ~ui.convertBtnDisabled
    /\ ui.convertBtnLabel = "Convert"
    /\ ui.markdownOutput # <<>>

\* C12: a handleConversion call finishes only while the call that was started
\* last is still suspended (it is that call, or one that the call started
\* last will overwrite): once all calls have finished, the Markdown output
\* and the status are those of the call started last.
C12_LastStartedWins ==
    [][Len(inflight') < Len(inflight) => latest = "suspended"]_vars

\* the texts handleConversion is called with: the value of the HTML input
\* (Convert button, shortcut) and the payloads of a paste
CallTexts == {ui.htmlInput} \cup ClipboardHtml \cup ClipboardPlain

\* handleConversion returns at once on this text: blank, or not HTML-shaped
FailsValidation(html) ==
    html = <<>> \/ Trim(html) = <<>> \/ ~isValidHtml(Str(html))

\* page v is page u with an error toast shown and nothing else changed
ErrorToastOnly(u, v) ==
    /\ v = [u EXCEPT !.toastText = v.toastText, !.toastClass = v.toastClass,
                     !.toastTimeout = v.toastTimeout, !.timers = v.timers]
    /\ v.toastClass = "toast visible error"
    /\ v.toastText \in {"No HTML content to convert",
                        "Input does not appear to contain valid HTML"}

\* C13: a handleConversion call that does not succeed never changes the
\* Markdown output.  On a blank or not HTML-shaped text it returns without
\* entering the processing state and changes nothing but the toast; when the
\* conversion or the formatting throws, it keeps the output, the Copy button
\* and the input as they were, sets the status 'Conversion failed', shows an
\* error toast and leaves the Convert button enabled with its normal label.
C13_FailedCallKeepsOutput ==
    \A html \in CallTexts :
        /\ FailsValidation(html) =>
              /\ ~handleConversionStart(ui, html).suspended
              /\ ErrorToastOnly(ui, handleConversionStart(ui, html).ui)
        /\ (~FailsValidation(html) /\ ~handleConversionStart(ui, html).suspended) =>
              /\ handleConversionStart(ui, html).ui.markdownOutput = ui.markdownOutput
              /\ handleConversionStart(ui, html).ui.copyBtnDisabled = ui.copyBtnDisabled
              /\ handleConversionStart(ui, html).ui.htmlInput = ui.htmlInput
              /\ handleConversionStart(ui, html).ui.statusText = "Conversion failed"
              /\ handleConversionStart(ui, html).ui.statusClass = "status error"
              /\ handleConversionStart(ui, html).ui.toastClass = "toast visible error"
              /\ ~handleConversionStart(ui, html).ui.convertBtnDisabled
              /\ handleConversionStart(ui, html).ui.convertBtnLabel = "Convert"

\* a call failed after an earlier one had filled the output, which is kept
C13_Witness ==
    /\ ui.statusText = "Conversion failed"
    /\ ui.markdownOutput # <<>>
    /\ ~ui.copyBtnDisabled
    /\ inflight = <<>>

\* the Copy button is disabled exactly when the Markdown output is blank
CopyButtonFollowsOutput(u) == u.copyBtnDisabled <=> IsBlankStr(u.markdownOutput)

\* C14: once the output or the Copy button has been written (which only
\* setMarkdownOutputValue does), the Copy button is disabled if and only if
\* the Markdown output is empty or whitespace-only, and stays so;
\* setProcessingState, showToast, updateStatus and clearHtmlInput leave the
\* Copy button and the output alone; and handleCopyClick starts
\* copyToClipboard only with text that is not blank.
C14_CopyButton ==
    /\ [][(\/ CopyButtonFollowsOutput(ui)
           \/ ui'.markdownOutput # ui.markdownOutput
           \/ ui'.copyBtnDisabled # ui.copyBtnDisabled) =>
              CopyButtonFollowsOutput(ui')]_vars
    /\ [][copying' > copying =>
              /\ ~IsBlankStr(ui.markdownOutput)
              /\ ~ui.copyBtnDisabled]_vars
    /\ [](\A v \in {setProcessingState(ui, TRUE), setProcessingState(ui, FALSE),
                    showToast(ui, "Input cleared", ""),
                    updateStatus(ui, "Processing...", ""),
                    clearHtmlInput(ui)} :
              /\ v.copyBtnDisabled = ui.copyBtnDisabled
              /\ v.markdownOutput = ui.markdownOutput)

\* a copy of a non-blank output is in progress, the Copy button enabled
C14_Witness ==
    /\ copying > 0
    /\ ~ui.copyBtnDisabled
    /\ ~IsBlankStr(ui.markdownOutput)
    /\ ui.statusText = "Converted successfully"

\* C15: at most one hide timer is pending at any time, and it is the one of
\* the toast on show; a visible toast has its timer pending and is hidden
\* only by that timer firing; and a visible toast is eventually hidden.
C15_OneToastTimer ==
    /\ [](/\ Cardinality(ui.timers) <= 1
          /\ ui.timers \subseteq {ui.toastTimeout}
          /\ ui.toastClass # "toast" => ui.timers = {ui.toastTimeout})
    /\ [][(ui.toastClass # "toast" /\ ui'.toastClass = "toast") =>
              /\ ui.timers = {ui.toastTimeout}
              /\ ui'.timers = {}
              /\ ui'.toastText = ui.toastText]_vars
    /\ (ui.toastClass # "toast") ~> (ui.toastClass = "toast")

\* a toast shown after the toast of a finished conversion, with exactly one
\* timer pending
C15_Witness ==
    /\ ui.toastText = "Output cleared"
    /\ ui.toastClass = "toast visible"
    /\ ui.statusText = ""
    /\ ui.timers = {ui.toastTimeout}
    /\ ui.htmlInput = <<>>
    /\ ui.markdownOutput = <<>>
    /\ inflight = <<>>
    /\ latest = "finished"

\* C16: whenever no copyToClipboard call is in progress, no textarea of the
\* copy fallback is attached to document.body, whichever path the finished
\* calls took.
C16_NoTextareaLeft == copying = 0 => textareas = 0

\* C17: a paste whose target is the HTML input is not intercepted:
\* handleDocumentPaste does not call preventDefault, does not read the
\* clipboard, starts no conversion, and leaves the page (input, output,
\* status, toast, buttons) and the calls in flight as they were.
C17_InputPasteUntouched ==
    [][(lastPaste'.done /\ lastPaste'.event.target = "html-input") =>
          /\ ~lastPaste'.prevented
          /\ ~lastPaste'.read
          /\ lastPaste'.called = <<>>
          /\ ui' = ui
          /\ inflight' = inflight
          /\ latest' = latest]_vars

\* a paste into the HTML input of a clipboard that holds HTML was left alone
C17_Witness ==
    /\ lastPaste.done
    /\ lastPaste.event.target = "html-input"
    /\ HasHtmlPayload(lastPaste.event)
    /\ isValidHtml(Str(lastPaste.event.html))
    /\ ~lastPaste.prevented
    /\ lastPaste.called = <<>>
    /\ ui.htmlInput = <<>>

====
